---------------------------- MODULE Spec2Model ----------------------------
(***************************************************************************)
(* A model of simple::String (SString): an immutable view                  *)
(* (data_, offset_, length_) over a shared UTF-8 buffer, with a lazily     *)
(* populated UTF-16 cache (utf16_cache_).  Bytes are naturals 0..255,      *)
(* UTF-16 code units are naturals 0..65535, positions are byte offsets     *)
(* counted from the start of the buffer (the C++ pointer minus c_str()).   *)
(***************************************************************************)
EXTENDS Naturals, Integers, Sequences, FiniteSets, TLC

VARIABLES heap,      \* buffer id -> the bytes of that std::string, or Free
          s,         \* the view operations are called on (the receiver)
          r,         \* the view returned by the last substring call, or NoView
          ret,       \* what the last operation returned (or that it threw)
          pc,        \* position of the running get_utf16 call: idle / loop
          str,       \* get_utf16: the byte pointer of the decode loop
          result,    \* get_utf16: the local std::u16string being built
          lastRead,  \* get_utf16: highest byte position read by this call
          th,        \* thread -> its position in a call on s made concurrently
          objs,      \* the u16string objects made by such calls, by id
          member,    \* the field utf16_cache_ of s as those calls see it
          to_string_result,  \* to_string: its static thread_local std::string
          initialized        \* detail::init_locale: its static bool

vars == <<heap, s, r, ret, pc, str, result, lastRead, th, objs, member,
         to_string_result, initialized>>

\* What the calls of one thread at a time leave alone.
tvars == <<th, objs, member>>

\* The objects of static storage duration the operations use.
gvars == <<to_string_result, initialized>>

---------------------------------------------------------------------------
(* Bounds of the model.                                                    *)

\* Every buffer of up to MaxLen bytes is tried.
MaxLen == 3

\* Byte values buffers are drawn from: one or two representatives of every
\* class the decoder distinguishes.
\*   0x41 ASCII            0x80 0xA0 continuation bytes
\*   0xC0 0xC2 2-byte leads (0xC0 is always overlong)
\*   0xE0 0xED 3-byte leads (0xE0 0x80.. overlong, 0xED 0xA0.. surrogate)
\*   0xF0 0xF4 4-byte leads (0xF0 0x80.. overlong, 0xF4 0xA0.. > 0x10FFFF)
\*   0xF8      a byte that is no lead at all (11111xxx)
Bytes == {65, 128, 160, 192, 194, 224, 237, 240, 244, 248}

\* The sequences over S of exactly n elements, and of up to n elements.
RECURSIVE SeqsOf(_, _)
SeqsOf(S, n) ==
    IF n = 0 THEN {<< >>}
    ELSE {Append(q, x) : q \in SeqsOf(S, n - 1), x \in S}

SeqsUpTo(S, n) == UNION {SeqsOf(S, k) : k \in 0..n}

\* A 4-byte lead followed by any three bytes: the buffers on which the
\* 4-byte rules apply, tried whatever MaxLen is.
Quads(S) == {<<l>> \o q : l \in S \cap 240..247, q \in SeqsOf(S, 3)}

Buffers == SeqsUpTo(Bytes, MaxLen) \cup Quads(Bytes)

\* The byte values of the specifications of the indexed operations: ASCII,
\* two continuation bytes, a 2-, a 3- and a 4-byte lead.  0xC0 0x80,
\* 0xE0 0x80 0x80 and 0xF0 0x80 0x80 0x80 are overlong, 0xE0 0xA0 0x80 and
\* 0xF0 0xA0 0x80 0x80 are well formed (the last one a surrogate pair).
OpBytes == {65, 128, 160, 192, 224, 240}

\* U+20000 as UTF-8: the units 0xD840 0xDC00.
PairBytes == <<240, 160, 128, 128>>

\* A surrogate pair with up to one byte before it and up to one after it.
AroundPair(S) ==
    {pre \o PairBytes \o post : pre \in SeqsUpTo(S, 1), post \in SeqsUpTo(S, 1)}

\* The buffers of those specifications, which are also the buffers whose
\* views the model goes on to slice (s = s.substring).
OpBuffers == SeqsUpTo(OpBytes, MaxLen) \cup Quads(OpBytes) \cup AroundPair(OpBytes)

\* The strings searched for: the empty one, one and two units of ASCII and
\* of a stray continuation byte (U+FFFD), a 3-byte sequence and a pair.
Needles == SeqsUpTo({65, 128}, 2) \cup {<<224, 160, 128>>, PairBytes}

\* The code units searched for: U+0000, 'A', U+FFFD, and the two units of
\* the pair of PairBytes.
Chars == {0, 65, 65533, 55360, 56320}

\* The scalars whose encoding is decoded again: every Stride-th one and the
\* first and last of each encoded length, the surrogates left out.
Stride == 257

Scalars ==
    ({k * Stride : k \in 0..(1114111 \div Stride)}
        \cup {0, 127, 128, 2047, 2048, 55295, 57344, 65533, 65535, 65536, 119964, 1114111})
    \ (55296..57343)

\* The texts a view is compared with: ASCII and stray continuation bytes
\* up to two long, and U+00E9 precomposed (0xC3 0xA9) and as 'e' followed
\* by the combining mark U+0301 (0x65 0xCC 0x81).
Operands == SeqsUpTo({65, 128}, 2) \cup {<<195, 169>>, <<101, 204, 129>>}

\* The threads that call into the same view at the same time.
NThreads == 2

Threads == 1..NThreads

\* The views they share: the empty one, ASCII, malformed bytes and a pair.
ThreadBuffers ==
    {<< >>, <<65>>, <<128>>, <<65, 128>>, <<224, 128, 128>>, <<65, 224, 160, 128>>,
     PairBytes}

---------------------------------------------------------------------------
(* Program constants.                                                      *)

\* 0xFFFD, the replacement unit pushed for malformed input.
REPLACEMENT == 65533

\* Surrogate ranges tested by the code point accessors.
HIGH_FIRST == 55296
HIGH_LAST  == 56319
LOW_FIRST  == 56320
LOW_LAST   == 57343

\* 0x10000, subtracted before a scalar is split into a surrogate pair.
SUPPLEMENTARY == 65536

\* 0x10FFFF, the last Unicode scalar.
MAX_SCALAR == 1114111

---------------------------------------------------------------------------
(* Bytes, masks and narrowing.                                             *)

\* b & m for a mask m that keeps the bits from bit k upwards (0xC0: k = 6,
\* 0xE0: k = 5, 0xF0: k = 4, 0xF8: k = 3).
MaskHi(b, k) == (b \div (2 ^ k)) * (2 ^ k)

\* b & m for a mask m that keeps the k low bits (0x3F: k = 6, 0x1F: k = 5,
\* 0x0F: k = 4, 0x07: k = 3).
MaskLo(b, k) == b % (2 ^ k)

\* The conversion of an unsigned int to char16_t in push_back.
Char16(x) == x % 65536

\* data_->c_str()[i]: the byte at position i; position Len(buf) holds the
\* terminating NUL of the std::string.
ByteAt(buf, i) == IF i < Len(buf) THEN buf[i + 1] ELSE 0

\* (b & 0xC0) != 0x80
NotCont(b) == MaskHi(b, 6) # 128

---------------------------------------------------------------------------
(* String::get_utf16: the body of one iteration of its decode loop, at    *)
(* byte position p of buffer buf, with the view ending at position end.    *)
(* units: what the iteration pushes; adv: how far it moves str; last: the  *)
(* highest position it reads (|| evaluates left to right and stops at the  *)
(* first true operand).                                                    *)

Rep(n) == [i \in 1..n |-> REPLACEMENT]

\* (str[k] & 0xC0) != 0x80 || ... || (str[n-1] & 0xC0) != 0x80, evaluated
\* from the left: bad when one operand is true, last = the last byte read.
RECURSIVE ContScan(_, _, _, _)
ContScan(buf, p, k, n) ==
    IF k > n - 1 THEN [bad |-> FALSE, last |-> p + n - 1]
    ELSE IF NotCont(ByteAt(buf, p + k)) THEN [bad |-> TRUE, last |-> p + k]
    ELSE ContScan(buf, p, k + 1, n)

\* The same test without its first operand.
Incomplete_NoEndCheck(buf, p, end, n) == ContScan(buf, p, 1, n)

\* str + (n-1) >= end || (str[1] & 0xC0) != 0x80 || ...   for an n-byte lead
Incomplete(buf, p, end, n) ==
    IF p + (n - 1) >= end THEN [bad |-> TRUE, last |-> p]
    ELSE ContScan(buf, p, 1, n)

\* codepoint < 0x80
Invalid2(codepoint) == codepoint < 128

Invalid3_OverlongOnly(codepoint) == codepoint < 2048

\* codepoint < 0x800 || (codepoint >= 0xD800 && codepoint <= 0xDFFF)
Invalid3(codepoint) ==
    codepoint < 2048 \/ (codepoint >= 55296 /\ codepoint <= 57343)

\* codepoint < 0x10000 || codepoint > 0x10FFFF
Invalid4(codepoint) == codepoint < 65536 \/ codepoint > MAX_SCALAR

\* codepoint -= 0x10000; push 0xD800 + (codepoint >> 10), 0xDC00 + (codepoint & 0x3FF)
SurrogatePair(codepoint) ==
    LET v == codepoint - SUPPLEMENTARY
    IN  <<Char16(HIGH_FIRST + (v \div 1024)), Char16(LOW_FIRST + (v % 1024))>>

DecodeAt(buf, p, end) ==
    LET b0 == ByteAt(buf, p)
        b1 == ByteAt(buf, p + 1)
        b2 == ByteAt(buf, p + 2)
        b3 == ByteAt(buf, p + 3)
    IN  IF b0 < 128 THEN
            [units |-> <<b0>>, adv |-> 1, last |-> p]
        ELSE IF MaskHi(b0, 5) = 192 THEN
            LET c == Incomplete(buf, p, end, 2)
                codepoint == MaskLo(b0, 5) * 64 + MaskLo(b1, 6)
            IN  IF c.bad THEN [units |-> Rep(1), adv |-> 1, last |-> c.last]
                ELSE IF Invalid2(codepoint)
                THEN [units |-> Rep(2), adv |-> 2, last |-> c.last]
                ELSE [units |-> <<Char16(codepoint)>>, adv |-> 2, last |-> c.last]
        ELSE IF MaskHi(b0, 4) = 224 THEN
            LET c == Incomplete(buf, p, end, 3)
                codepoint == MaskLo(b0, 4) * 4096 + MaskLo(b1, 6) * 64 + MaskLo(b2, 6)
            IN  IF c.bad THEN [units |-> Rep(1), adv |-> 1, last |-> c.last]
                ELSE IF Invalid3(codepoint)
                THEN [units |-> Rep(3), adv |-> 3, last |-> c.last]
                ELSE [units |-> <<Char16(codepoint)>>, adv |-> 3, last |-> c.last]
        ELSE IF MaskHi(b0, 3) = 240 THEN
            LET c == Incomplete(buf, p, end, 4)
                codepoint == MaskLo(b0, 3) * 262144 + MaskLo(b1, 6) * 4096
                             + MaskLo(b2, 6) * 64 + MaskLo(b3, 6)
            IN  IF c.bad THEN [units |-> Rep(1), adv |-> 1, last |-> c.last]
                ELSE IF Invalid4(codepoint)
                THEN [units |-> Rep(4), adv |-> 4, last |-> c.last]
                ELSE [units |-> SurrogatePair(codepoint), adv |-> 4, last |-> c.last]
        ELSE
            [units |-> Rep(1), adv |-> 1, last |-> p]

\* The whole loop `while (str < end)`: the u16string it builds.
RECURSIVE DecodeLoop(_, _, _)
DecodeLoop(buf, p, end) ==
    IF p < end
    THEN LET d == DecodeAt(buf, p, end)
         IN  d.units \o DecodeLoop(buf, p + d.adv, end)
    ELSE << >>

---------------------------------------------------------------------------
(* Views.                                                                  *)

Free   == <<-1>>
NoView == [data_ |-> 0, offset_ |-> 0, length_ |-> 0, utf16_cache_ |-> << >>]
NoRet  == [op |-> "none"]

\* String(const std::string&), String(const char*, length): a fresh buffer,
\* the full range, no cache.
NewString(id, bytes) ==
    [data_ |-> id, offset_ |-> 0, length_ |-> Len(bytes), utf16_cache_ |-> << >>]

\* The view v without its cache, as it is before any call decodes it.
Undecoded(v) == [v EXCEPT !.utf16_cache_ = << >>]

\* The bytes of the view's range.
ViewBytes(h, v) == SubSeq(h[v.data_], v.offset_ + 1, v.offset_ + v.length_)

\* What get_utf16 returns for view v: the cached sequence when there is
\* one, and otherwise the sequence decoded from the view's range.
get_utf16(h, v) ==
    IF v.utf16_cache_ # << >>
    THEN v.utf16_cache_[1]
    ELSE DecodeLoop(h[v.data_], v.offset_, v.offset_ + v.length_)

\* The call taken to widen the view to its whole buffer.
Cached_Whole(h, v) ==
    [v EXCEPT !.utf16_cache_ = <<DecodeLoop(h[v.data_], 0, Len(h[v.data_]))>>,
              !.offset_ = 0, !.length_ = Len(h[v.data_])]

\* The view after a get_utf16 call: utf16_cache_ holds the sequence.
Cached(h, v) == [v EXCEPT !.utf16_cache_ = <<get_utf16(h, v)>>]

---------------------------------------------------------------------------
(* detail::count_utf16_code_units: the body of one iteration of its loop   *)
(* over a std::string copy of the view's bytes (positions count from the   *)
(* start of that copy, end = its length).                                  *)

CountInvalid3_OverlongOnly(codepoint) == codepoint < 2048

\* codepoint < 0x800 || (codepoint >= 0xD800 && codepoint <= 0xDFFF)
CountInvalid3(codepoint) ==
    codepoint < 2048 \/ (codepoint >= 55296 /\ codepoint <= 57343)

CountAt(buf, p, end) ==
    LET b0 == ByteAt(buf, p)
        b1 == ByteAt(buf, p + 1)
        b2 == ByteAt(buf, p + 2)
        b3 == ByteAt(buf, p + 3)
    IN  IF b0 < 128 THEN
            [count |-> 1, adv |-> 1]
        ELSE IF MaskHi(b0, 5) = 192 THEN
            IF p + 1 >= end \/ NotCont(b1) THEN [count |-> 1, adv |-> 1]
            ELSE IF MaskLo(b0, 5) * 64 + MaskLo(b1, 6) < 128
            THEN [count |-> 2, adv |-> 2]
            ELSE [count |-> 1, adv |-> 2]
        ELSE IF MaskHi(b0, 4) = 224 THEN
            IF p + 2 >= end \/ NotCont(b1) \/ NotCont(b2) THEN [count |-> 1, adv |-> 1]
            ELSE IF CountInvalid3(MaskLo(b0, 4) * 4096 + MaskLo(b1, 6) * 64 + MaskLo(b2, 6))
            THEN [count |-> 3, adv |-> 3]
            ELSE [count |-> 1, adv |-> 3]
        ELSE IF MaskHi(b0, 3) = 240 THEN
            IF p + 3 >= end \/ NotCont(b1) \/ NotCont(b2) \/ NotCont(b3)
            THEN [count |-> 1, adv |-> 1]
            ELSE LET codepoint == MaskLo(b0, 3) * 262144 + MaskLo(b1, 6) * 4096
                                  + MaskLo(b2, 6) * 64 + MaskLo(b3, 6)
                 IN  IF codepoint < 65536 \/ codepoint > 1114111
                     THEN [count |-> 4, adv |-> 4]
                     ELSE [count |-> 2, adv |-> 4]
        ELSE
            [count |-> 1, adv |-> 1]

RECURSIVE CountLoop(_, _, _)
CountLoop(buf, p, end) ==
    IF p < end
    THEN LET c == CountAt(buf, p, end)
         IN  c.count + CountLoop(buf, p + c.adv, end)
    ELSE 0

count_utf16_code_units(utf8_str) == CountLoop(utf8_str, 0, Len(utf8_str))

\* String::length(): the cached sequence's length when there is a cache,
\* 0 for an empty range, and otherwise the count over a copy of the range.
\* The cache is left as it is.
length(h, v) ==
    IF v.utf16_cache_ # << >> THEN Len(v.utf16_cache_[1])
    ELSE IF v.length_ = 0 THEN 0
    ELSE count_utf16_code_units(ViewBytes(h, v))

---------------------------------------------------------------------------
(* String::substring(Index, Index).                                        *)

\* The iteration taken to move by what the lead byte announces, whatever
\* follows it.
ScanAt_ByLead(buf, p, end) ==
    LET b0 == ByteAt(buf, p)
    IN  IF b0 < 128 THEN [count |-> 1, adv |-> 1]
        ELSE IF MaskHi(b0, 5) = 192 THEN [count |-> 1, adv |-> 2]
        ELSE IF MaskHi(b0, 4) = 224 THEN [count |-> 1, adv |-> 3]
        ELSE IF MaskHi(b0, 3) = 240 THEN [count |-> 2, adv |-> 4]
        ELSE [count |-> 1, adv |-> 1]

\* One iteration of the loop that looks for the byte offset of a UTF-16
\* index: how many units it counts and how far it moves str.
ScanAt(buf, p, end) ==
    LET b0 == ByteAt(buf, p)
        b1 == ByteAt(buf, p + 1)
        b2 == ByteAt(buf, p + 2)
        b3 == ByteAt(buf, p + 3)
    IN  IF b0 < 128 THEN
            [count |-> 1, adv |-> 1]
        ELSE IF MaskHi(b0, 5) = 192 THEN
            IF p + 1 >= end \/ NotCont(b1) THEN [count |-> 1, adv |-> 1]
            ELSE [count |-> 1, adv |-> 2]
        ELSE IF MaskHi(b0, 4) = 224 THEN
            IF p + 2 >= end \/ NotCont(b1) \/ NotCont(b2) THEN [count |-> 1, adv |-> 1]
            ELSE [count |-> 1, adv |-> 3]
        ELSE IF MaskHi(b0, 3) = 240 THEN
            IF p + 3 >= end \/ NotCont(b1) \/ NotCont(b2) \/ NotCont(b3)
            THEN [count |-> 1, adv |-> 1]
            ELSE [count |-> 2, adv |-> 4]
        ELSE
            [count |-> 1, adv |-> 1]

\* while (str < end && utf16_index < target) ...; the position str stops at.
RECURSIVE ScanLoop(_, _, _, _, _)
ScanLoop(buf, p, end, utf16_index, target) ==
    IF p < end /\ utf16_index < target
    THEN LET c == ScanAt(buf, p, end)
         IN  ScanLoop(buf, p + c.adv, end, utf16_index + c.count, target)
    ELSE p

\* The byte offset, from the view's first byte, found for a UTF-16 index;
\* 0 when the index is 0 (the scan is skipped).
Utf8Offset(h, v, index) ==
    IF index > 0
    THEN ScanLoop(h[v.data_], v.offset_, v.offset_ + v.length_, 0, index) - v.offset_
    ELSE 0

\* The first free buffer id.
AllocId(h) == CHOOSE i \in DOMAIN h : h[i] = Free /\ \A j \in 1..(i - 1) : h[j] # Free

FullRange_Never(len, beginIndex, endIndex) == FALSE

\* beginIndex == 0 && endIndex == utf16.length()
FullRange(len, beginIndex, endIndex) == beginIndex = 0 /\ endIndex = len

\* substring taken to build every proper slice over a buffer of its own.
substring_OwnBuffer(h, v, beginIndex, endIndex) ==
    LET len == Len(get_utf16(h, v))
    IN  IF beginIndex > len \/ endIndex > len \/ beginIndex > endIndex THEN
            [thrown |-> TRUE, view |-> NoView, fresh |-> FALSE]
        ELSE IF FullRange(len, beginIndex, endIndex) THEN
            [thrown |-> FALSE, view |-> Cached(h, v), fresh |-> FALSE]
        ELSE
            [thrown |-> FALSE, view |-> NewString(AllocId(h), << >>), fresh |-> TRUE]

\* The call's outcome: thrown, or the view returned (view) and, when the
\* call makes a new buffer for String(""), that buffer (fresh).
substring(h, v, beginIndex, endIndex) ==
    LET len == Len(get_utf16(h, v))
    IN  IF beginIndex > len \/ endIndex > len \/ beginIndex > endIndex THEN
            [thrown |-> TRUE, view |-> NoView, fresh |-> FALSE]
        ELSE IF FullRange(len, beginIndex, endIndex) THEN
            [thrown |-> FALSE, view |-> Cached(h, v), fresh |-> FALSE]
        ELSE IF beginIndex = endIndex THEN
            [thrown |-> FALSE, view |-> NewString(AllocId(h), << >>), fresh |-> TRUE]
        ELSE
            LET utf8_begin == Utf8Offset(h, v, beginIndex)
                utf8_end   == Utf8Offset(h, v, endIndex)
            IN  [thrown |-> FALSE,
                 view |-> [data_ |-> v.data_,
                           offset_ |-> v.offset_ + utf8_begin,
                           length_ |-> utf8_end - utf8_begin,
                           utf16_cache_ |-> << >>],
                 fresh |-> FALSE]

\* String::substring(Index): len = length(), then substring(beginIndex, len).
substring_from(h, v, beginIndex) ==
    LET len == length(h, v)
    IN  IF beginIndex > len THEN [thrown |-> TRUE, view |-> NoView, fresh |-> FALSE]
        ELSE substring(h, v, beginIndex, len)

\* The heap once the views in `live` are the only ones left: a buffer no
\* view refers to is released by its shared_ptr.
Release(h, live) ==
    [i \in DOMAIN h |-> IF \E v \in live : v.data_ = i THEN h[i] ELSE Free]

\* Arguments tried for an index of view v: every valid one and one past.
Indexes(h, v) == 0..(Len(get_utf16(h, v)) + 1)

---------------------------------------------------------------------------
(* The code point accessors, over the sequence get_utf16 returned.         *)

\* first >= 0xD800 && first <= 0xDBFF
IsHigh(u) == u >= HIGH_FIRST /\ u <= HIGH_LAST

\* second >= 0xDC00 && second <= 0xDFFF
IsLow(u) == u >= LOW_FIRST /\ u <= LOW_LAST

Combine_NoOffset(first, second) ==
    (first - HIGH_FIRST) * 1024 + (second - LOW_FIRST)

\* 0x10000 + ((first - 0xD800) << 10) + (second - 0xDC00)
Combine(first, second) ==
    SUPPLEMENTARY + (first - HIGH_FIRST) * 1024 + (second - LOW_FIRST)

\* utf16[i] of the C++ code (0-based).
At(utf16, i) == utf16[i + 1]

code_point_at_NoPairing(utf16, index) ==
    IF index >= Len(utf16) THEN [thrown |-> TRUE, val |-> 0]
    ELSE [thrown |-> FALSE, val |-> At(utf16, index)]

code_point_at(utf16, index) ==
    IF index >= Len(utf16) THEN [thrown |-> TRUE, val |-> 0]
    ELSE LET first == At(utf16, index)
         IN  IF IsHigh(first) /\ index + 1 < Len(utf16) /\ IsLow(At(utf16, index + 1))
             THEN [thrown |-> FALSE, val |-> Combine(first, At(utf16, index + 1))]
             ELSE [thrown |-> FALSE, val |-> first]

\* The bounds test taken as index > length(); utf16[length()] is the
\* terminating null of the u16string.
char_at_Inclusive(utf16, index) ==
    IF index > Len(utf16) THEN [thrown |-> TRUE, val |-> 0]
    ELSE IF index = Len(utf16) THEN [thrown |-> FALSE, val |-> 0]
    ELSE [thrown |-> FALSE, val |-> At(utf16, index)]

\* String::char_at
char_at(utf16, index) ==
    IF index >= Len(utf16) THEN [thrown |-> TRUE, val |-> 0]
    ELSE [thrown |-> FALSE, val |-> At(utf16, index)]

code_point_before_NoPairing(utf16, index) ==
    IF index = 0 \/ index > Len(utf16) THEN [thrown |-> TRUE, val |-> 0]
    ELSE [thrown |-> FALSE, val |-> At(utf16, index - 1)]

code_point_before(utf16, index) ==
    IF index = 0 \/ index > Len(utf16) THEN [thrown |-> TRUE, val |-> 0]
    ELSE LET second == At(utf16, index - 1)
         IN  IF IsLow(second) /\ index >= 2 /\ IsHigh(At(utf16, index - 2))
             THEN [thrown |-> FALSE, val |-> Combine(At(utf16, index - 2), second)]
             ELSE [thrown |-> FALSE, val |-> second]

SkipsLow_Never(utf16, i, end_index) == FALSE

\* ch is a high surrogate, i + 1 < end_index and utf16[i + 1] is a low one:
\* the loop body does ++i.
SkipsLow(utf16, i, end_index) ==
    IsHigh(At(utf16, i)) /\ i + 1 < end_index /\ IsLow(At(utf16, i + 1))

\* for (i = begin_index; i < end_index; ++i) { ...; ++count; }
RECURSIVE CountPoints(_, _, _)
CountPoints(utf16, i, end_index) ==
    IF i < end_index
    THEN 1 + CountPoints(utf16, IF SkipsLow(utf16, i, end_index) THEN i + 2 ELSE i + 1,
                         end_index)
    ELSE 0

code_point_count_PairAligned(utf16, begin_index, end_index) ==
    IF begin_index > end_index \/ end_index > Len(utf16)
    THEN [thrown |-> TRUE, val |-> 0]
    ELSE LET inside == /\ begin_index >= 1 /\ begin_index < end_index
                       /\ IsLow(At(utf16, begin_index))
                       /\ IsHigh(At(utf16, begin_index - 1))
         IN  [thrown |-> FALSE,
              val |-> CountPoints(utf16, IF inside THEN begin_index + 1 ELSE begin_index,
                                  end_index)]

code_point_count(utf16, begin_index, end_index) ==
    IF begin_index > end_index \/ end_index > Len(utf16)
    THEN [thrown |-> TRUE, val |-> 0]
    ELSE [thrown |-> FALSE, val |-> CountPoints(utf16, begin_index, end_index)]

---------------------------------------------------------------------------
(* Comparison and search.                                                  *)

\* Index::invalid, a value no index of a string equals.
Invalid == -1

\* shares_data_with(other) && offset_ == other.offset_ && length_ == other.length_
SameRange(a, b) ==
    a.data_ = b.data_ /\ a.offset_ = b.offset_ /\ a.length_ = b.length_

equals_SameRangeOnly(h, a, b) == SameRange(a, b)

\* String::equals
equals(h, a, b) ==
    IF SameRange(a, b) THEN TRUE
    ELSE IF a.length_ # b.length_ THEN FALSE
    ELSE \A i \in 0..(a.length_ - 1) :
            ByteAt(h[a.data_], a.offset_ + i) = ByteAt(h[b.data_], b.offset_ + i)

MatchesAt_FirstUnit(utf16, str_utf16, i) == At(utf16, i) = At(str_utf16, 0)

\* The window of str_len units at i matches.
MatchesAt(utf16, str_utf16, i) ==
    \A j \in 0..(Len(str_utf16) - 1) : At(utf16, i + j) = At(str_utf16, j)

\* String::indexOf(const String&, Index)
indexOf(utf16, str_utf16, fromIndex) ==
    LET len     == Len(utf16)
        str_len == Len(str_utf16)
    IN  IF str_len = 0 THEN (IF fromIndex <= len THEN fromIndex ELSE Invalid)
        ELSE IF fromIndex >= len \/ fromIndex + str_len > len THEN Invalid
        ELSE LET found == {i \in fromIndex..(len - str_len) : MatchesAt(utf16, str_utf16, i)}
             IN  IF found = {} THEN Invalid
                 ELSE CHOOSE i \in found : \A k \in found : i <= k

LastMatchesAt_FirstUnit(utf16, str_utf16, start) ==
    start < Len(utf16) /\ At(utf16, start) = At(str_utf16, 0)

\* lastIndexOf: the window at start matches; start + j >= len ends it.
LastMatchesAt(utf16, str_utf16, start) ==
    \A j \in 0..(Len(str_utf16) - 1) :
        start + j < Len(utf16) /\ At(utf16, start + j) = At(str_utf16, j)

\* if (fromIndex >= len) fromIndex = len - str_len;
\* else if (fromIndex + str_len > len) fromIndex = len - str_len;
ClampFrom(len, str_len, fromIndex) ==
    IF fromIndex >= len THEN len - str_len
    ELSE IF fromIndex + str_len > len THEN len - str_len
    ELSE fromIndex

\* String::lastIndexOf(const String&, Index)
lastIndexOf(utf16, str_utf16, fromIndex) ==
    LET len     == Len(utf16)
        str_len == Len(str_utf16)
    IN  IF str_len = 0 THEN (IF fromIndex <= len THEN fromIndex ELSE len)
        ELSE IF len = 0 \/ str_len > len THEN Invalid
        ELSE LET from  == ClampFrom(len, str_len, fromIndex)
                 found == {i \in 0..from : LastMatchesAt(utf16, str_utf16, i)}
             IN  IF found = {} THEN Invalid
                 ELSE CHOOSE i \in found : \A k \in found : i >= k

\* The test of the offset left out: an offset past the end is no match.
startsWith_NoThrow(utf16, prefix_utf16, offset) ==
    LET len        == Len(utf16)
        prefix_len == Len(prefix_utf16)
    IN  IF prefix_len = 0 THEN [thrown |-> FALSE, val |-> TRUE]
        ELSE IF offset > len \/ len - offset < prefix_len
             THEN [thrown |-> FALSE, val |-> FALSE]
        ELSE [thrown |-> FALSE,
              val |-> \A i \in 0..(prefix_len - 1) :
                         At(utf16, offset + i) = At(prefix_utf16, i)]

\* String::startsWith(const String&, Index)
startsWith(utf16, prefix_utf16, offset) ==
    LET len        == Len(utf16)
        prefix_len == Len(prefix_utf16)
    IN  IF offset > len THEN [thrown |-> TRUE, val |-> FALSE]
        ELSE IF prefix_len = 0 THEN [thrown |-> FALSE, val |-> TRUE]
        ELSE IF len - offset < prefix_len THEN [thrown |-> FALSE, val |-> FALSE]
        ELSE [thrown |-> FALSE,
              val |-> \A i \in 0..(prefix_len - 1) :
                         At(utf16, offset + i) = At(prefix_utf16, i)]

\* String::endsWith
endsWith(utf16, suffix_utf16) ==
    LET len        == Len(utf16)
        suffix_len == Len(suffix_utf16)
    IN  IF suffix_len = 0 THEN TRUE
        ELSE IF len < suffix_len THEN FALSE
        ELSE \A i \in 0..(suffix_len - 1) :
                At(utf16, len - suffix_len + i) = At(suffix_utf16, i)

\* The largest std::size_t, above every length of the model: what
\* utf16.length() - 1 is for an empty sequence.
SIZE_MAX == 2147483647

\* utf16[i] for i <= utf16.length(): the unit, or the terminating
\* char16_t() that operator[] gives at i == length().
UnitAt(utf16, i) == IF i < Len(utf16) THEN utf16[i + 1] ELSE 0

\* String::indexOf(Char, Index): the first i >= fromIndex with
\* utf16[i] == ch.value().
indexOfChar(utf16, ch, fromIndex) ==
    LET len  == Len(utf16)
        hits == {i \in fromIndex..(len - 1) : UnitAt(utf16, i) = ch}
    IN  IF fromIndex >= len THEN Invalid
        ELSE IF hits = {} THEN Invalid
        ELSE CHOOSE i \in hits : \A j \in hits : i <= j

\* for (i = fromIndex.value() + 1; i > 0; --i) if (utf16[i - 1] == ch.value())
LastCharHits(utf16, ch, from) == {i \in 0..from : UnitAt(utf16, i) = ch}

\* String::lastIndexOf(Char, Index)
lastIndexOfChar(utf16, ch, fromIndex) ==
    LET len  == Len(utf16)
        from == IF len = 0 \/ fromIndex >= len
                THEN (IF len > 0 THEN len - 1 ELSE 0)
                ELSE fromIndex
        hits == LastCharHits(utf16, ch, from)
    IN  IF hits = {} THEN Invalid
        ELSE CHOOSE i \in hits : \A j \in hits : i >= j

\* String::lastIndexOf(Char): lastIndexOf(ch, Index(utf16.length() - 1)),
\* the subtraction done in std::size_t.
lastIndexOfCharAll(utf16, ch) ==
    lastIndexOfChar(utf16, ch, IF Len(utf16) = 0 THEN SIZE_MAX ELSE Len(utf16) - 1)

\* String::to_string: the buffer itself for a view of all of it, else a
\* copy of the view's bytes.
to_string(h, v) ==
    IF v.offset_ = 0 /\ v.length_ = Len(h[v.data_]) THEN h[v.data_]
    ELSE SubSeq(h[v.data_], v.offset_ + 1, v.offset_ + v.length_)

\* String::to_string: its static thread_local result once the call on v
\* has returned, res being what it held before.
to_string_static(h, v, res) ==
    IF v.offset_ = 0 /\ v.length_ = Len(h[v.data_]) THEN res
    ELSE SubSeq(h[v.data_], v.offset_ + 1, v.offset_ + v.length_)

\* String::to_string: what the reference it returns refers to.
to_string_ref(h, v) ==
    IF v.offset_ = 0 /\ v.length_ = Len(h[v.data_]) THEN "data" ELSE "result"

\* A byte as a signed char.
SignedChar(b) == IF b >= 128 THEN b - 256 ELSE b

RECURSIVE compare_utf8_strings_Signed(_, _)
compare_utf8_strings_Signed(str1, str2) ==
    IF str1 = << >> \/ str2 = << >> THEN Len(str1) - Len(str2)
    ELSE IF Head(str1) # Head(str2) THEN SignedChar(Head(str1)) - SignedChar(Head(str2))
    ELSE compare_utf8_strings_Signed(Tail(str1), Tail(str2))

\* detail::compare_utf8_strings: std::string::compare, which orders the
\* common prefix by char_traits<char>::compare (bytes as unsigned char)
\* and then by length.  The sign of the result is what is used.
RECURSIVE compare_utf8_strings(_, _)
compare_utf8_strings(str1, str2) ==
    IF str1 = << >> \/ str2 = << >> THEN Len(str1) - Len(str2)
    ELSE IF Head(str1) # Head(str2) THEN Head(str1) - Head(str2)
    ELSE compare_utf8_strings(Tail(str1), Tail(str2))

\* String::compare_to
compare_to(h, a, b) ==
    IF SameRange(a, b) THEN "EQUAL"
    ELSE LET res == compare_utf8_strings(to_string(h, a), to_string(h, b))
         IN  IF res < 0 THEN "LESS" ELSE IF res > 0 THEN "GREATER" ELSE "EQUAL"

\* The comparison operators of String.
Operators == {"==", "!=", "<", "<=", ">", ">="}

\* The operators with operator<= taken to be operator<.
operator_LessOnly(h, a, b, op) ==
    CASE op = "==" -> equals(h, a, b)
      [] op = "!=" -> ~equals(h, a, b)
      [] op = "<"  -> compare_to(h, a, b) = "LESS"
      [] op = "<=" -> compare_to(h, a, b) = "LESS"
      [] op = ">"  -> compare_to(h, a, b) = "GREATER"
      [] op = ">=" -> compare_to(h, a, b) \in {"GREATER", "EQUAL"}

\* String::operator==, !=, <, <=, >, >=: equals(other), !equals(other),
\* and compare_to(other).is_less(), .is_less_or_equal(), .is_greater(),
\* .is_greater_or_equal().
operator(h, a, b, op) ==
    CASE op = "==" -> equals(h, a, b)
      [] op = "!=" -> ~equals(h, a, b)
      [] op = "<"  -> compare_to(h, a, b) = "LESS"
      [] op = "<=" -> compare_to(h, a, b) \in {"LESS", "EQUAL"}
      [] op = ">"  -> compare_to(h, a, b) = "GREATER"
      [] op = ">=" -> compare_to(h, a, b) \in {"GREATER", "EQUAL"}

\* String::compare_to: to_string's static result once a.compare_to(b) has
\* returned.
compare_to_static(h, a, b, res) ==
    IF SameRange(a, b) THEN res
    ELSE to_string_static(h, b, to_string_static(h, a, res))

\* The views the receiver v is compared with, each with the heap it lives
\* in: v itself, the views v.substring(b, e) returns, and String(bytes)
\* for the operand texts.
OtherViews(h, v) ==
    {[h |-> h, v |-> v, sliced |-> FALSE]}
    \cup {[h |-> IF o.fresh THEN [h EXCEPT ![o.view.data_] = << >>] ELSE h,
           v |-> o.view, sliced |-> TRUE] :
            o \in {substring(h, v, b, e) : b \in 0..Len(get_utf16(h, v)),
                                           e \in 0..Len(get_utf16(h, v))}
                  \ {[thrown |-> TRUE, view |-> NoView, fresh |-> FALSE]}}
    \cup {[h |-> [h EXCEPT ![AllocId(h)] = bytes], v |-> NewString(AllocId(h), bytes),
           sliced |-> FALSE] : bytes \in Operands}

---------------------------------------------------------------------------
(* Calls of several threads on the view s.  The field utf16_cache_ is a     *)
(* plain std::shared_ptr: member.ptr is the object it points to (0 when     *)
(* empty), objs[id] is that object and the number of shared_ptr copies     *)
(* that own it (0 once it has been destroyed), and member.busy is the set  *)
(* of threads in the middle of an assignment to it.                        *)

\* A pointer value that is no live object's: what a copy of the field can
\* hold when it is read or written while another thread writes it.
Wild == -1

\* What a read through a dangling reference or a wild pointer may give
\* instead of the object's contents.
Garbage == <<-1>>

\* A thread outside any call.
ThreadOut ==
    [pc |-> "out", op |-> "none", cache |-> 0, owns |-> FALSE, ref |-> 0,
     seen |-> << >>]

Alive(o, id) == id \in 1..Len(o) /\ o[id].refs > 0

\* A shared_ptr copy is made of, or dropped from, object id.
Acquire(o, id) == IF Alive(o, id) THEN [o EXCEPT ![id].refs = @ + 1] ELSE o

ReleaseRef(o, id) == IF Alive(o, id) THEN [o EXCEPT ![id].refs = @ - 1] ELSE o

\* What thread t can get when it reads the field: its value, or, while
\* other threads are assigning to it, also a value being assigned or a
\* wild pointer.
FieldReads(t) ==
    IF member.busy \ {t} = {} THEN {member.ptr}
    ELSE {member.ptr, Wild} \cup {th[w].cache : w \in member.busy \ {t}}

---------------------------------------------------------------------------
(* Initial states: one view constructed from raw text.                     *)

InitOver(buffers) ==
    /\ \E bytes \in buffers :
          /\ heap = <<bytes, Free, Free>>
          /\ s = NewString(1, bytes)
    /\ r = NoView
    /\ ret = NoRet
    /\ pc = "idle"
    /\ str = 0
    /\ result = << >>
    /\ lastRead = -1
    /\ th = [t \in Threads |-> ThreadOut]
    /\ objs = << >>
    /\ member = [ptr |-> 0, busy |-> {}]
    /\ to_string_result = << >>
    /\ initialized = FALSE

Init == InitOver(Buffers)

InitOps == InitOver(OpBuffers)

\* The standard UTF-8 encoding of the scalar c.
utf8_encode(c) ==
    IF c < 128 THEN <<c>>
    ELSE IF c < 2048 THEN <<192 + (c \div 64), 128 + (c % 64)>>
    ELSE IF c < 65536 THEN
        <<224 + (c \div 4096), 128 + ((c \div 64) % 64), 128 + (c % 64)>>
    ELSE <<240 + (c \div 262144), 128 + ((c \div 4096) % 64),
           128 + ((c \div 64) % 64), 128 + (c % 64)>>

InitRoundTrip == InitOver({utf8_encode(c) : c \in Scalars})

\* The client is between two calls.
Ready == pc = "idle" /\ ret = NoRet

---------------------------------------------------------------------------
(* get_utf16, one loop iteration at a time.                                *)

\* auto cache = utf16_cache_; if (!cache) { std::u16string result; str = ...
GetUtf16Enter ==
    /\ Ready
    /\ s.utf16_cache_ = << >>
    /\ pc' = "loop"
    /\ str' = s.offset_
    /\ result' = << >>
    /\ lastRead' = -1
    /\ UNCHANGED <<heap, s, r, ret>>
    /\ UNCHANGED tvars
    /\ UNCHANGED gvars

\* one iteration of while (str < end)
DecodeStep ==
    /\ pc = "loop"
    /\ str < s.offset_ + s.length_
    /\ LET d == DecodeAt(heap[s.data_], str, s.offset_ + s.length_)
       IN  /\ result' = result \o d.units
           /\ str' = str + d.adv
           /\ lastRead' = IF d.last > lastRead THEN d.last ELSE lastRead
    /\ UNCHANGED <<heap, s, r, ret, pc>>
    /\ UNCHANGED tvars
    /\ UNCHANGED gvars

\* the loop is left; cache = make_shared(result); utf16_cache_ = cache;
\* return *cache; the locals go out of scope
GetUtf16Store ==
    /\ pc = "loop"
    /\ ~(str < s.offset_ + s.length_)
    /\ s' = [s EXCEPT !.utf16_cache_ = <<result>>]
    /\ ret' = [op |-> "get_utf16", consumed |-> str - s.offset_]
    /\ pc' = "idle"
    /\ str' = 0
    /\ result' = << >>
    /\ lastRead' = -1
    /\ UNCHANGED <<heap, r>>
    /\ UNCHANGED tvars
    /\ UNCHANGED gvars

---------------------------------------------------------------------------
(* Operations on the view s, each a whole call.                            *)

\* n = s.length()
Length ==
    /\ Ready
    /\ ret' = [op |-> "length", val |-> length(heap, s),
               cached |-> s.utf16_cache_ # << >>]
    /\ UNCHANGED <<heap, s, r, pc, str, result, lastRead>>
    /\ UNCHANGED tvars
    /\ initialized' = TRUE
    /\ UNCHANGED to_string_result

\* c = s.code_point_at(index)
CodePointAt ==
    /\ Ready
    /\ \E index \in Indexes(heap, s) :
          LET o == code_point_at(get_utf16(heap, s), index)
          IN  ret' = [op |-> "code_point_at", index |-> index, thrown |-> o.thrown,
                      val |-> o.val, cached |-> s.utf16_cache_ # << >>]
    /\ s' = Cached(heap, s)
    /\ UNCHANGED <<heap, r, pc, str, result, lastRead>>
    /\ UNCHANGED tvars
    /\ UNCHANGED gvars

\* r = s.substring(beginIndex, endIndex).  The call runs get_utf16 on s
\* first, which leaves s with its cache.
Substring ==
    /\ Ready
    /\ \E beginIndex \in Indexes(heap, s), endIndex \in Indexes(heap, s) :
          LET o == substring(heap, s, beginIndex, endIndex)
          IN  /\ s' = Cached(heap, s)
              /\ r' = o.view
              /\ heap' = IF o.fresh THEN [heap EXCEPT ![o.view.data_] = << >>] ELSE heap
              /\ ret' = [op |-> "substring", beginIndex |-> beginIndex,
                         endIndex |-> endIndex, thrown |-> o.thrown]
    /\ UNCHANGED <<pc, str, result, lastRead>>
    /\ UNCHANGED tvars
    /\ UNCHANGED gvars

\* s = s.substring(beginIndex, endIndex) with indexes in range: the program
\* goes on with the slice, and the view s held before is destroyed.
Slice ==
    /\ Ready
    /\ heap[s.data_] \in OpBuffers
    /\ LET len == Len(get_utf16(heap, s))
       IN  \E beginIndex \in 0..len :
             \E endIndex \in beginIndex..len :
                LET o == substring(heap, s, beginIndex, endIndex)
                    h == IF o.fresh THEN [heap EXCEPT ![o.view.data_] = << >>] ELSE heap
                IN  /\ s' = o.view
                    /\ heap' = Release(h, {o.view})
    /\ UNCHANGED <<r, ret, pc, str, result, lastRead>>
    /\ UNCHANGED tvars
    /\ UNCHANGED gvars

\* c = s.code_point_before(index)
CodePointBefore ==
    /\ Ready
    /\ \E index \in Indexes(heap, s) :
          LET o == code_point_before(get_utf16(heap, s), index)
          IN  ret' = [op |-> "code_point_before", index |-> index,
                      thrown |-> o.thrown, val |-> o.val]
    /\ s' = Cached(heap, s)
    /\ UNCHANGED <<heap, r, pc, str, result, lastRead>>
    /\ UNCHANGED tvars
    /\ UNCHANGED gvars

\* n = s.code_point_count(begin_index, end_index)
CodePointCount ==
    /\ Ready
    /\ \E begin_index \in Indexes(heap, s), end_index \in Indexes(heap, s) :
          LET o == code_point_count(get_utf16(heap, s), begin_index, end_index)
          IN  ret' = [op |-> "code_point_count", begin_index |-> begin_index,
                      end_index |-> end_index, thrown |-> o.thrown, val |-> o.val]
    /\ s' = Cached(heap, s)
    /\ UNCHANGED <<heap, r, pc, str, result, lastRead>>
    /\ UNCHANGED tvars
    /\ UNCHANGED gvars

\* i = s.indexOf(String(bytes), fromIndex): the argument is a temporary, gone
\* when the call has returned.
IndexOfStr ==
    /\ Ready
    /\ \E bytes \in Needles, fromIndex \in Indexes(heap, s) :
          LET id  == AllocId(heap)
              h   == [heap EXCEPT ![id] = bytes]
              arg == NewString(id, bytes)
          IN  ret' = [op |-> "indexOf", str |-> bytes, fromIndex |-> fromIndex,
                      val |-> indexOf(get_utf16(h, s), get_utf16(h, arg), fromIndex)]
    /\ s' = Cached(heap, s)
    /\ UNCHANGED <<heap, r, pc, str, result, lastRead>>
    /\ UNCHANGED tvars
    /\ UNCHANGED gvars

\* i = s.lastIndexOf(String(bytes), fromIndex); lastIndexOf(str) is the call
\* with fromIndex = length().
LastIndexOfStr ==
    /\ Ready
    /\ \E bytes \in Needles, fromIndex \in Indexes(heap, s) :
          LET id  == AllocId(heap)
              h   == [heap EXCEPT ![id] = bytes]
              arg == NewString(id, bytes)
          IN  ret' = [op |-> "lastIndexOf", str |-> bytes, fromIndex |-> fromIndex,
                      val |-> lastIndexOf(get_utf16(h, s), get_utf16(h, arg), fromIndex)]
    /\ s' = Cached(heap, s)
    /\ UNCHANGED <<heap, r, pc, str, result, lastRead>>
    /\ UNCHANGED tvars
    /\ UNCHANGED gvars

\* b = s.startsWith(String(bytes), offset); startsWith(prefix) is the call
\* with offset = 0.
StartsWith ==
    /\ Ready
    /\ \E bytes \in Needles, offset \in Indexes(heap, s) :
          LET id  == AllocId(heap)
              h   == [heap EXCEPT ![id] = bytes]
              arg == NewString(id, bytes)
              o   == startsWith(get_utf16(h, s), get_utf16(h, arg), offset)
          IN  ret' = [op |-> "startsWith", str |-> bytes, offset |-> offset,
                      thrown |-> o.thrown, val |-> o.val]
    /\ s' = Cached(heap, s)
    /\ UNCHANGED <<heap, r, pc, str, result, lastRead>>
    /\ UNCHANGED tvars
    /\ UNCHANGED gvars

\* b = s.endsWith(String(bytes))
EndsWith ==
    /\ Ready
    /\ \E bytes \in Needles :
          LET id  == AllocId(heap)
              h   == [heap EXCEPT ![id] = bytes]
              arg == NewString(id, bytes)
          IN  ret' = [op |-> "endsWith", str |-> bytes,
                      val |-> endsWith(get_utf16(h, s), get_utf16(h, arg))]
    /\ s' = Cached(heap, s)
    /\ UNCHANGED <<heap, r, pc, str, result, lastRead>>
    /\ UNCHANGED tvars
    /\ UNCHANGED gvars

\* c = s.char_at(index), s.char_value(index) or s[index]: the last two call
\* char_at.
CharAt ==
    /\ Ready
    /\ \E index \in Indexes(heap, s), op \in {"char_at", "char_value", "operator[]"} :
          LET o == char_at(get_utf16(heap, s), index)
          IN  ret' = [op |-> op, index |-> index, thrown |-> o.thrown, val |-> o.val]
    /\ s' = Cached(heap, s)
    /\ UNCHANGED <<heap, r, pc, str, result, lastRead>>
    /\ UNCHANGED tvars
    /\ UNCHANGED gvars

\* r = s.substring(beginIndex).  A call that throws at its own test has not
\* run get_utf16.
SubstringFrom ==
    /\ Ready
    /\ \E beginIndex \in Indexes(heap, s) :
          LET o == substring_from(heap, s, beginIndex)
          IN  /\ s' = IF o.thrown THEN s ELSE Cached(heap, s)
              /\ r' = o.view
              /\ heap' = IF o.fresh THEN [heap EXCEPT ![o.view.data_] = << >>] ELSE heap
              /\ ret' = [op |-> "substring_from", beginIndex |-> beginIndex,
                         thrown |-> o.thrown]
    /\ UNCHANGED <<pc, str, result, lastRead>>
    /\ UNCHANGED tvars
    /\ initialized' = TRUE
    /\ UNCHANGED to_string_result

\* str = s.to_string()
ToStdString ==
    /\ Ready
    /\ ret' = [op |-> "to_string", val |-> to_string(heap, s),
               ref |-> to_string_ref(heap, s)]
    /\ to_string_result' = to_string_static(heap, s, to_string_result)
    /\ UNCHANGED <<heap, s, r, pc, str, result, lastRead>>
    /\ UNCHANGED tvars
    /\ UNCHANGED initialized

\* i = s.indexOf(ch) or s.indexOf(ch, fromIndex)
IndexOfChar ==
    /\ Ready
    /\ \E ch \in Chars, fromIndex \in Indexes(heap, s) :
          ret' = [op |-> "indexOf_char", ch |-> ch, fromIndex |-> fromIndex,
                  val |-> indexOfChar(get_utf16(heap, s), ch, fromIndex)]
    /\ s' = Cached(heap, s)
    /\ UNCHANGED <<heap, r, pc, str, result, lastRead>>
    /\ UNCHANGED tvars
    /\ UNCHANGED gvars

\* i = s.lastIndexOf(ch, fromIndex)
LastIndexOfChar ==
    /\ Ready
    /\ \E ch \in Chars, fromIndex \in Indexes(heap, s) :
          ret' = [op |-> "lastIndexOf_char", ch |-> ch, fromIndex |-> fromIndex,
                  val |-> lastIndexOfChar(get_utf16(heap, s), ch, fromIndex)]
    /\ s' = Cached(heap, s)
    /\ UNCHANGED <<heap, r, pc, str, result, lastRead>>
    /\ UNCHANGED tvars
    /\ UNCHANGED gvars

\* i = s.lastIndexOf(ch)
LastIndexOfCharAll ==
    /\ Ready
    /\ \E ch \in Chars :
          ret' = [op |-> "lastIndexOf_char_all", ch |-> ch,
                  val |-> lastIndexOfCharAll(get_utf16(heap, s), ch)]
    /\ s' = Cached(heap, s)
    /\ UNCHANGED <<heap, r, pc, str, result, lastRead>>
    /\ UNCHANGED tvars
    /\ UNCHANGED gvars

\* const std::string& str2 = other.to_string(), while the caller still
\* holds the reference the call before returned for s; other is another
\* view of the thread, and both references are looked at afterwards.
ToStdStringNext ==
    /\ pc = "idle"
    /\ ret.op = "to_string"
    /\ \E x \in OtherViews(heap, s) :
          /\ ret' = [op |-> "to_string_next", ref |-> ret.ref, val |-> ret.val,
                     other |-> Undecoded(x.v), otherRef |-> to_string_ref(x.h, x.v),
                     otherVal |-> to_string(x.h, x.v),
                     otherBytes |-> ViewBytes(x.h, x.v)]
          /\ s' = IF x.sliced THEN Cached(heap, s) ELSE s
          /\ to_string_result' = to_string_static(x.h, x.v, to_string_result)
    /\ UNCHANGED <<heap, r, pc, str, result, lastRead>>
    /\ UNCHANGED tvars
    /\ UNCHANGED initialized

\* b = s.equals(other); other is gone when the result has been looked at.
Equals ==
    /\ Ready
    /\ \E x \in OtherViews(heap, s) :
          /\ ret' = [op |-> "equals", other |-> Undecoded(x.v),
                     bytes |-> ViewBytes(x.h, x.v), val |-> equals(x.h, s, x.v)]
          /\ s' = IF x.sliced THEN Cached(heap, s) ELSE s
    /\ UNCHANGED <<heap, r, pc, str, result, lastRead>>
    /\ UNCHANGED tvars
    /\ UNCHANGED gvars

\* c = s.compare_to(other)
CompareTo ==
    /\ Ready
    /\ \E x \in OtherViews(heap, s) :
          /\ ret' = [op |-> "compare_to", other |-> Undecoded(x.v),
                     bytes |-> ViewBytes(x.h, x.v), val |-> compare_to(x.h, s, x.v)]
          /\ s' = IF x.sliced THEN Cached(heap, s) ELSE s
          /\ to_string_result' = compare_to_static(x.h, s, x.v, to_string_result)
    /\ UNCHANGED <<heap, r, pc, str, result, lastRead>>
    /\ UNCHANGED tvars
    /\ UNCHANGED initialized

\* b = (s op other) for a comparison operator; the relational ones call
\* compare_to, and with it to_string.
Operator ==
    /\ Ready
    /\ \E x \in OtherViews(heap, s), op \in Operators :
          /\ ret' = [op |-> op, other |-> Undecoded(x.v),
                     bytes |-> ViewBytes(x.h, x.v), val |-> operator(x.h, s, x.v, op)]
          /\ s' = IF x.sliced THEN Cached(heap, s) ELSE s
          /\ to_string_result' =
                IF op \in {"==", "!="} THEN to_string_result
                ELSE compare_to_static(x.h, s, x.v, to_string_result)
    /\ UNCHANGED <<heap, r, pc, str, result, lastRead>>
    /\ UNCHANGED tvars
    /\ UNCHANGED initialized

\* The caller is done with what the last call returned.
Discard ==
    /\ pc = "idle"
    /\ ret # NoRet
    /\ ret' = NoRet
    /\ r' = NoView
    /\ heap' = Release(heap, {s})
    /\ UNCHANGED <<s, pc, str, result, lastRead>>
    /\ UNCHANGED tvars
    /\ UNCHANGED gvars

---------------------------------------------------------------------------
(* get_utf16 and length() called by threads on the same view, one access   *)
(* to the field utf16_cache_ at a time.                                    *)

\* Thread t calls get_utf16 (through char_at, code_point_at, ...) or length.
T_Call(t) ==
    /\ th[t].pc = "out"
    /\ \E op \in {"get_utf16", "length"} :
          th' = [th EXCEPT ![t] = [ThreadOut EXCEPT !.pc = "start", !.op = op]]
    /\ UNCHANGED <<heap, s, r, ret, pc, str, result, lastRead, objs, member>>
    /\ UNCHANGED gvars

\* auto cache = utf16_cache_;
T_Load(t) ==
    /\ th[t].pc = "start" /\ th[t].op = "get_utf16"
    /\ \E p \in FieldReads(t) :
          /\ th' = [th EXCEPT ![t].pc = "loaded", ![t].cache = p,
                              ![t].owns = Alive(objs, p)]
          /\ objs' = Acquire(objs, p)
    /\ UNCHANGED <<heap, s, r, ret, pc, str, result, lastRead, member>>
    /\ UNCHANGED gvars

\* if (!cache) { the decode loop, on locals; cache = make_shared(result);
T_Compute(t) ==
    /\ th[t].pc = "loaded" /\ th[t].cache = 0
    /\ objs' = Append(objs, [units |-> DecodeLoop(heap[s.data_], s.offset_,
                                                  s.offset_ + s.length_),
                             refs |-> 1])
    /\ th' = [th EXCEPT ![t].pc = "computed", ![t].cache = Len(objs) + 1,
                        ![t].owns = TRUE]
    /\ UNCHANGED <<heap, s, r, ret, pc, str, result, lastRead, member>>
    /\ UNCHANGED gvars

\* utf16_cache_ = cache; begins
T_StoreBegin(t) ==
    /\ th[t].pc = "computed"
    /\ member' = [member EXCEPT !.busy = @ \cup {t}]
    /\ th' = [th EXCEPT ![t].pc = "storing"]
    /\ UNCHANGED <<heap, s, r, ret, pc, str, result, lastRead, objs>>
    /\ UNCHANGED gvars

\* utf16_cache_ = cache; is done: the field points to this thread's object
\* and has let go of the one it pointed to.  Two assignments at the same
\* time can leave a wild pointer behind.
T_StoreEnd(t) ==
    /\ th[t].pc = "storing"
    /\ \E p \in (IF member.busy \ {t} = {} THEN {th[t].cache}
                 ELSE {th[t].cache, Wild}) :
          /\ member' = [ptr |-> p, busy |-> member.busy \ {t}]
          /\ objs' = ReleaseRef(Acquire(objs, p), member.ptr)
          /\ s' = [s EXCEPT !.utf16_cache_ =
                        IF p = Wild THEN <<Garbage>> ELSE <<objs[p].units>>]
    /\ th' = [th EXCEPT ![t].pc = "stored"]
    /\ UNCHANGED <<heap, r, ret, pc, str, result, lastRead>>
    /\ UNCHANGED gvars

\* return *cache; the local shared_ptr goes out of scope and the caller is
\* left with a reference to the object.
T_Return(t) ==
    /\ \/ th[t].pc = "stored"
       \/ th[t].pc = "loaded" /\ th[t].cache # 0
    /\ objs' = IF th[t].owns THEN ReleaseRef(objs, th[t].cache) ELSE objs
    /\ th' = [th EXCEPT ![t].pc = "reading", ![t].ref = th[t].cache,
                        ![t].cache = 0, ![t].owns = FALSE]
    /\ UNCHANGED <<heap, s, r, ret, pc, str, result, lastRead, member>>
    /\ UNCHANGED gvars

\* length(): detail::init_locale(), then if (utf16_cache_)
T_LenTest(t) ==
    /\ th[t].pc = "start" /\ th[t].op = "length"
    /\ \E p \in FieldReads(t) :
          th' = [th EXCEPT ![t].pc = IF p = 0 THEN "count" ELSE "deref"]
    /\ UNCHANGED <<heap, s, r, ret, pc, str, result, lastRead, objs, member>>
    /\ initialized' = TRUE
    /\ UNCHANGED to_string_result

\* length(): return utf16_cache_->length(); reads the field a second time,
\* without making a copy of it.
T_LenDeref(t) ==
    /\ th[t].pc = "deref"
    /\ \E p \in FieldReads(t) :
          th' = [th EXCEPT ![t].pc = "reading", ![t].ref = p]
    /\ UNCHANGED <<heap, s, r, ret, pc, str, result, lastRead, objs, member>>
    /\ UNCHANGED gvars

\* length(): the cache was empty: count_utf16_code_units on the bytes.
T_LenCount(t) ==
    /\ th[t].pc = "count"
    /\ th' = [th EXCEPT ![t].pc = "done",
                        ![t].seen = <<length(heap, Undecoded(s))>>]
    /\ UNCHANGED <<heap, s, r, ret, pc, str, result, lastRead, objs, member>>
    /\ UNCHANGED gvars

\* The sequence is read through the reference (get_utf16's caller), or its
\* length is (length()).  A destroyed object may still show its contents.
T_Read(t) ==
    /\ th[t].pc = "reading"
    /\ LET id == th[t].ref
           whole == IF id \in 1..Len(objs) THEN {objs[id].units} ELSE {}
           reads == IF Alive(objs, id) THEN whole ELSE whole \cup {Garbage}
       IN  \E u \in reads :
              th' = [th EXCEPT ![t].pc = "done",
                               ![t].seen = IF th[t].op = "length" /\ u # Garbage
                                           THEN <<Len(u)>> ELSE u]
    /\ UNCHANGED <<heap, s, r, ret, pc, str, result, lastRead, objs, member>>
    /\ UNCHANGED gvars

\* The call of thread t is over.
T_Finish(t) ==
    /\ th[t].pc = "done"
    /\ th' = [th EXCEPT ![t] = ThreadOut]
    /\ UNCHANGED <<heap, s, r, ret, pc, str, result, lastRead, objs, member>>
    /\ UNCHANGED gvars

---------------------------------------------------------------------------
(* Specifications.                                                         *)

\* The decoder at work on every view the program can make.
NextDecode ==
    GetUtf16Enter \/ DecodeStep \/ GetUtf16Store \/ Slice \/ Discard

SpecDecode == Init /\ [][NextDecode]_vars

\* The decode loop is code of a running thread: it goes on until it returns.
SpecDecodeFair ==
    SpecDecode /\ WF_vars(DecodeStep) /\ WF_vars(GetUtf16Store)

\* length() and a reader of the decoded sequence, before and after the
\* cache is there.
NextLength == Length \/ CodePointAt \/ Slice \/ Discard

SpecLength == Init /\ [][NextLength]_vars

\* Slicing.
NextSlice == Substring \/ Slice \/ Discard

SpecSlice == InitOps /\ [][NextSlice]_vars

\* Searching for a string.
NextSearch == IndexOfStr \/ Slice \/ Discard

SpecSearch == InitOps /\ [][NextSearch]_vars

\* Reading code points.
NextCodePoint == CodePointAt \/ CodePointBefore \/ CodePointCount \/ Slice \/ Discard

SpecCodePoint == InitOps /\ [][NextCodePoint]_vars

\* Decoding what the standard encoder made of one scalar.
NextRoundTrip == Length \/ CodePointAt \/ Discard

SpecRoundTrip == InitRoundTrip /\ [][NextRoundTrip]_vars

\* Searching backwards.
NextSearchBack == LastIndexOfStr \/ Slice \/ Discard

SpecSearchBack == InitOps /\ [][NextSearchBack]_vars

\* Prefixes and suffixes.
NextAffix == StartsWith \/ EndsWith \/ Slice \/ Discard

SpecAffix == InitOps /\ [][NextAffix]_vars

\* The operations that take an index.
\* Texts of an ASCII byte, a continuation byte and two lead bytes, and a
\* pair.
InitIndexed == InitOver(SeqsUpTo({65, 128, 224, 240}, MaxLen) \cup {PairBytes})

NextIndexed ==
    CharAt \/ CodePointAt \/ CodePointBefore \/ CodePointCount \/ Substring
        \/ SubstringFrom \/ Slice \/ Discard

SpecIndexed == InitIndexed /\ [][NextIndexed]_vars

\* Comparing views: texts of an ASCII byte, a continuation byte and a lead
\* byte, and the operand texts.
CompareBuffers == SeqsUpTo({65, 128, 224}, MaxLen) \cup Operands

InitCompare == InitOver(CompareBuffers)

NextCompare == Equals \/ CompareTo \/ Operator \/ Slice \/ Discard

SpecCompare == InitCompare /\ [][NextCompare]_vars

\* Every operation, on the shorter buffers, a pair and some longer texts.
InitFrame ==
    InitOver({b \in SeqsUpTo({65, 128, 192, 240}, MaxLen) : Len(b) < MaxLen}
                \cup {PairBytes, <<65, 128, 65>>, <<224, 128, 128>>, <<65, 65, 128>>})

NextFrame ==
    \/ Length \/ CharAt \/ CodePointAt \/ CodePointBefore \/ CodePointCount
    \/ Substring \/ SubstringFrom \/ IndexOfStr \/ LastIndexOfStr
    \/ StartsWith \/ EndsWith \/ Equals \/ CompareTo \/ ToStdString
    \/ Slice \/ Discard

SpecFrame == InitFrame /\ [][NextFrame]_vars

\* Searching for one code unit, in texts that may hold U+0000.
CharBuffers == SeqsUpTo({0, 65, 128}, MaxLen) \cup {PairBytes}

InitSearchChar == InitOver(CharBuffers)

NextSearchChar == IndexOfChar \/ LastIndexOfChar \/ LastIndexOfCharAll \/ Slice \/ Discard

SpecSearchChar == InitSearchChar /\ [][NextSearchChar]_vars

\* to_string on a view and then on another one.
NextToString == ToStdString \/ ToStdStringNext \/ Slice \/ Discard

SpecToString == InitCompare /\ [][NextToString]_vars

\* Threads calling into one fresh view at the same time.
InitThreads == InitOver(ThreadBuffers)

NextThreads ==
    \E t \in Threads :
        \/ T_Call(t) \/ T_Load(t) \/ T_Compute(t) \/ T_StoreBegin(t) \/ T_StoreEnd(t)
        \/ T_Return(t) \/ T_LenTest(t) \/ T_LenDeref(t) \/ T_LenCount(t)
        \/ T_Read(t) \/ T_Finish(t)

SpecThreads == InitThreads /\ [][NextThreads]_vars

Next ==
    NextDecode \/ NextLength \/ NextSlice \/ NextSearch \/ NextCodePoint
        \/ NextSearchBack \/ NextAffix \/ NextIndexed \/ NextFrame \/ NextCompare
        \/ NextSearchChar \/ NextToString \/ NextThreads

Spec == Init /\ [][Next]_vars

---------------------------------------------------------------------------
(* The decoding rules as the specification states them, over the bytes bs  *)
(* of a view (1-based), read from position i.                              *)

LeadLength(b) ==
    IF b < 128 THEN 1
    ELSE IF b \in 192..223 THEN 2
    ELSE IF b \in 224..239 THEN 3
    ELSE IF b \in 240..247 THEN 4
    ELSE 0

\* The n - 1 continuation bytes the lead at i asks for are there.
Complete(bs, i, n) ==
    /\ i + n - 1 <= Len(bs)
    /\ \A k \in 1..(n - 1) : bs[i + k] \in 128..191

RuleValue(bs, i, n) ==
    IF n = 2 THEN (bs[i] - 192) * 64 + (bs[i + 1] - 128)
    ELSE IF n = 3 THEN (bs[i] - 224) * 4096 + (bs[i + 1] - 128) * 64 + (bs[i + 2] - 128)
    ELSE (bs[i] - 240) * 262144 + (bs[i + 1] - 128) * 4096
         + (bs[i + 2] - 128) * 64 + (bs[i + 3] - 128)

RuleAt(bs, i) ==
    LET n == LeadLength(bs[i])
        v == RuleValue(bs, i, n)
    IN  IF n = 1 THEN [units |-> <<bs[i]>>, adv |-> 1]
        ELSE IF n = 0 THEN [units |-> <<65533>>, adv |-> 1]
        ELSE IF ~Complete(bs, i, n) THEN [units |-> <<65533>>, adv |-> 1]
        ELSE IF n = 2 THEN
            IF v < 128 THEN [units |-> <<65533, 65533>>, adv |-> 2]
            ELSE [units |-> <<v>>, adv |-> 2]
        ELSE IF n = 3 THEN
            IF v < 2048 \/ v \in 55296..57343
            THEN [units |-> <<65533, 65533, 65533>>, adv |-> 3]
            ELSE [units |-> <<v>>, adv |-> 3]
        ELSE
            IF v < 65536 \/ v > 1114111
            THEN [units |-> <<65533, 65533, 65533, 65533>>, adv |-> 4]
            ELSE [units |-> <<55296 + ((v - 65536) \div 1024),
                              56320 + ((v - 65536) % 1024)>>, adv |-> 4]

RECURSIVE RuleUnits(_, _)
RuleUnits(bs, i) ==
    IF i > Len(bs) THEN << >>
    ELSE LET x == RuleAt(bs, i) IN x.units \o RuleUnits(bs, i + x.adv)

\* The sequence decoded from the bytes of view v, whatever its cache holds.
Decoded(h, v) == DecodeLoop(h[v.data_], v.offset_, v.offset_ + v.length_)

---------------------------------------------------------------------------
(* Claims.                                                                 *)

\* C1: the sequence get_utf16 stores for a view is exactly the one the rule
\* table gives for the view's bytes, read left to right.
Thm_C1_RuleTable ==
    (pc = "idle" /\ ret # NoRet /\ ret.op = "get_utf16")
        => s.utf16_cache_ = <<RuleUnits(ViewBytes(heap, s), 1)>>

\* get_utf16 has returned for the overlong 0xE0 0x80 0x80: three U+FFFD.
Wit_C1_Overlong3 ==
    /\ ret # NoRet /\ ret.op = "get_utf16"
    /\ ViewBytes(heap, s) = <<224, 128, 128>>
    /\ s.utf16_cache_ = <<<<65533, 65533, 65533>>>>

\* C2: the decode loop stays inside the view (its pointer and every byte it
\* reads), moves by 1 to 4 bytes per iteration, leaves the loop having
\* consumed exactly length_ bytes, and always leaves it.
DecodeInBounds ==
    pc = "loop" => /\ s.offset_ <= str
                   /\ str <= s.offset_ + s.length_
                   /\ lastRead < s.offset_ + s.length_

DecodeAdvances ==
    /\ (pc = "loop" /\ pc' = "loop") => (str' - str) \in 1..4
    /\ (pc = "loop" /\ pc' = "idle") =>
            /\ str = s.offset_ + s.length_
            /\ ret'.op = "get_utf16" /\ ret'.consumed = s.length_

Thm_C2_DecodeTotal ==
    /\ []DecodeInBounds
    /\ [][DecodeAdvances]_vars
    /\ (pc = "loop") ~> (pc = "idle")

\* get_utf16 has returned for a view of malformed bytes that lies in the
\* middle of its buffer.
Wit_C2_MidBuffer ==
    /\ ret # NoRet /\ ret.op = "get_utf16"
    /\ s.offset_ > 0
    /\ s.offset_ + s.length_ < Len(heap[s.data_])
    /\ ret.consumed = s.length_
    /\ \E i \in 1..Len(s.utf16_cache_[1]) : s.utf16_cache_[1][i] = 65533

\* C3: length() returns the length of the sequence decoded from the view's
\* bytes, with and without the cache, and code_point_at returns what it
\* returns on that sequence, whether the cache was there or not.
Thm_C3_LengthAgrees ==
    /\ (ret # NoRet /\ ret.op = "length") => ret.val = Len(Decoded(heap, s))
    /\ (ret # NoRet /\ ret.op = "code_point_at") =>
            LET o == code_point_at(Decoded(heap, s), ret.index)
            IN  ret.thrown = o.thrown /\ ret.val = o.val

\* length() was called with no cache on a 3-byte sequence in the surrogate
\* range, which counts as three units.
Wit_C3_Uncached ==
    /\ ret # NoRet /\ ret.op = "length" /\ ~ret.cached
    /\ ViewBytes(heap, s) = <<237, 160, 128>>
    /\ ret.val = 3

\* The surrogate ranges and the scalar of a pair, as the specification
\* states them.
HighSurrogates == 55296..56319

LowSurrogates == 56320..57343

Paired(hi, lo) == 65536 + (hi - 55296) * 1024 + (lo - 56320)

\* C4: for 0 <= b <= e <= s.length(), substring(b, e) returns a view r with
\* r.length() = e - b whose unit at each i < e - b is s.char_at(b + i).
Cex_C4_SubstringUnits ==
    (/\ ret.op = "substring"
     /\ ret.beginIndex <= ret.endIndex
     /\ ret.endIndex <= length(heap, Undecoded(s)))
        => /\ ~ret.thrown
           /\ length(heap, r) = ret.endIndex - ret.beginIndex
           /\ \A i \in 0..(ret.endIndex - ret.beginIndex - 1) :
                 LET a == char_at(get_utf16(heap, r), i)
                     b == char_at(get_utf16(heap, s), ret.beginIndex + i)
                 IN  ~a.thrown /\ ~b.thrown /\ a.val = b.val

\* C5: when h.indexOf(n, from) returns a valid index i for a non-empty n,
\* h.substring(i, i + n.length()) equals n.
Cex_C5_IndexOfSubstring ==
    (ret.op = "indexOf" /\ ret.str # << >> /\ ret.val # Invalid)
        => LET id == AllocId(heap)
               h  == [heap EXCEPT ![id] = ret.str]
               n  == NewString(id, ret.str)
               o  == substring(h, s, ret.val, ret.val + length(h, n))
               h2 == IF o.fresh THEN [h EXCEPT ![o.view.data_] = << >>] ELSE h
           IN  ~o.thrown /\ equals(h2, o.view, n)

\* C6: s.substring(0, s.length()) returns a view with the buffer, the byte
\* offset and the byte length of s, and equal to s.
Thm_C6_FullRange ==
    (/\ ret.op = "substring"
     /\ ret.beginIndex = 0
     /\ ret.endIndex = length(heap, Undecoded(s)))
        => /\ ~ret.thrown
           /\ r.data_ = s.data_
           /\ r.offset_ = s.offset_
           /\ r.length_ = s.length_
           /\ equals(heap, r, s)

\* The full range was taken of a sub-view, not at the start of its buffer,
\* whose bytes decode to some U+FFFD.
Wit_C6_SubView ==
    /\ ret.op = "substring" /\ ~ret.thrown
    /\ ret.beginIndex = 0
    /\ ret.endIndex = Len(Decoded(heap, s))
    /\ s.offset_ > 0 /\ s.length_ > 1
    /\ \E i \in 1..Len(Decoded(heap, s)) : Decoded(heap, s)[i] = 65533
    /\ r.data_ = s.data_ /\ r.offset_ = s.offset_ /\ r.length_ = s.length_

\* The scalar the bytes bs are the standard encoding of, if they are one.
ScalarOf(bs) == IF Len(bs) = 1 THEN bs[1] ELSE RuleValue(bs, 1, Len(bs))

\* C7: a view made from the standard encoding of a scalar c outside the
\* surrogate range has code_point_at(0) = c, and length() = 1 when
\* c <= 0xFFFF and 2 otherwise.
Thm_C7_RoundTrip ==
    LET bs == ViewBytes(heap, s)
        c  == ScalarOf(bs)
    IN  /\ c >= 0 /\ c <= 1114111 /\ ~(c >= 55296 /\ c <= 57343)
        /\ bs = utf8_encode(c)
        /\ (ret.op = "code_point_at" /\ ret.index = 0)
                => ~ret.thrown /\ ret.val = c
        /\ ret.op = "length" => ret.val = (IF c <= 65535 THEN 1 ELSE 2)

\* code_point_at(0) has returned U+10FFFF for its encoding, decoded by that
\* call.
Wit_C7_LastScalar ==
    /\ ret.op = "code_point_at" /\ ret.index = 0 /\ ~ret.cached
    /\ ViewBytes(heap, s) = <<244, 143, 191, 191>>
    /\ ret.val = 1114111

\* C8: code_point_count(0, s.length()) is at most s.length(), and equal to
\* it exactly when no high surrogate of the decoded sequence is followed by
\* a low one.
Thm_C8_CountBound ==
    LET u == Decoded(heap, s)
    IN  (/\ ret.op = "code_point_count"
         /\ ret.begin_index = 0
         /\ ret.end_index = Len(u))
            => /\ ~ret.thrown
               /\ ret.val <= Len(u)
               /\ ret.val = Len(u)
                    <=> ~\E i \in 1..(Len(u) - 1) :
                            u[i] \in HighSurrogates /\ u[i + 1] \in LowSurrogates

\* The whole of a view with a pair and a U+FFFD was counted: one less than
\* its units.
Wit_C8_PairCounted ==
    LET u == Decoded(heap, s)
    IN  /\ ret.op = "code_point_count"
        /\ ret.begin_index = 0 /\ ret.end_index = Len(u)
        /\ ret.val = Len(u) - 1
        /\ \E i \in 1..Len(u) : u[i] = 65533

\* C9: for i < length(), code_point_at(i) is the scalar of the pair when
\* u[i] is a high surrogate followed by a low one, and u[i] otherwise.
Thm_C9_CodePointAt ==
    LET u == Decoded(heap, s)
        i == ret.index + 1
    IN  (ret.op = "code_point_at" /\ ret.index < Len(u))
            => /\ ~ret.thrown
               /\ ret.val = IF /\ u[i] \in HighSurrogates
                               /\ i + 1 <= Len(u)
                               /\ u[i + 1] \in LowSurrogates
                            THEN Paired(u[i], u[i + 1])
                            ELSE u[i]

\* code_point_at has combined a pair that is not at the start of the view.
Wit_C9_PairInside ==
    /\ ret.op = "code_point_at" /\ ~ret.thrown
    /\ ret.index >= 1
    /\ Decoded(heap, s)[ret.index + 1] = 55360
    /\ ret.val = 131072

\* C10: for 1 <= i <= length(), code_point_before(i) is the scalar of the
\* pair (u[i-2], u[i-1]) when u[i-1] is a low surrogate preceded by a high
\* one, and u[i-1] otherwise; after a pair it is what code_point_at returns
\* at the pair's start.
Thm_C10_CodePointBefore ==
    LET u == Decoded(heap, s)
        i == ret.index
        paired == i >= 2 /\ u[i] \in LowSurrogates /\ u[i - 1] \in HighSurrogates
    IN  (ret.op = "code_point_before" /\ 1 <= i /\ i <= Len(u))
            => /\ ~ret.thrown
               /\ ret.val = IF paired THEN Paired(u[i - 1], u[i]) ELSE u[i]
               /\ paired => ret.val = code_point_at(get_utf16(heap, s), i - 2).val

\* code_point_before has combined a pair that units come after.
Wit_C10_PairInside ==
    /\ ret.op = "code_point_before" /\ ~ret.thrown
    /\ ret.index >= 2 /\ ret.index < Len(Decoded(heap, s))
    /\ Decoded(heap, s)[ret.index] = 56320
    /\ ret.val = 131072

\* The scalars of the units [i, e) of u (0-based), read left to right from
\* i: a high surrogate and the low one after it are one scalar when both
\* are inside [i, e), and every other unit is one.
RECURSIVE ScalarsIn(_, _, _)
ScalarsIn(u, i, e) ==
    IF i >= e THEN 0
    ELSE IF u[i + 1] \in HighSurrogates /\ i + 1 < e /\ u[i + 2] \in LowSurrogates
         THEN 1 + ScalarsIn(u, i + 2, e)
         ELSE 1 + ScalarsIn(u, i + 1, e)

\* C11: for begin <= end <= length(), code_point_count(begin, end) is the
\* number of scalars of the units [begin, end) read left to right from
\* begin, a pair counting as one only when both its units are in the range.
Thm_C11_CountRange ==
    LET u == Decoded(heap, s)
    IN  (/\ ret.op = "code_point_count"
         /\ ret.begin_index <= ret.end_index
         /\ ret.end_index <= Len(u))
            => /\ ~ret.thrown
               /\ ret.val = ScalarsIn(u, ret.begin_index, ret.end_index)

\* A range was counted that begins at the low surrogate of a pair and goes
\* on after it: the low surrogate is one scalar.
Wit_C11_LowAtBegin ==
    LET u == Decoded(heap, s)
    IN  /\ ret.op = "code_point_count" /\ ~ret.thrown
        /\ ret.begin_index >= 1
        /\ ret.end_index > ret.begin_index + 1
        /\ u[ret.begin_index] \in HighSurrogates
        /\ u[ret.begin_index + 1] \in LowSurrogates
        /\ ret.val = ret.end_index - ret.begin_index

\* C12: the cache of a view goes from empty to populated at most once: the
\* field utf16_cache_, once it points to a stored sequence, is never made
\* to point to another one, under any interleaving of the threads' calls.
Cex_C12_StoredOnce ==
    [][member.ptr # 0 => member'.ptr = member.ptr]_vars

\* What a call of thread t is to return: the decode of the bytes of s, or
\* its length.
Expected(t) ==
    IF th[t].op = "length" THEN <<Len(Decoded(heap, s))>> ELSE Decoded(heap, s)

\* C13: under any interleaving of get_utf16 and length() calls on the same
\* view, every finished call has read the complete decode of the view's
\* bytes (or its length), no copy of the field is a half-written pointer,
\* and no object a caller still reads through has been destroyed.
Cex_C13_CompleteReads ==
    /\ member.ptr # Wild
    /\ \A t \in Threads :
          /\ th[t].cache # Wild
          /\ th[t].pc = "reading" => Alive(objs, th[t].ref)
          /\ th[t].pc = "done" => th[t].seen = Expected(t)

\* C14: a.equals(b) is true exactly when a and b have the same byte length
\* and the same bytes over their ranges; views with the same buffer, offset
\* and length are equal, and the precomposed and the combining-mark
\* encodings of one text are not.
Thm_C14_EqualsBytes ==
    ret.op = "equals" =>
        LET a == ViewBytes(heap, s)
            b == ret.bytes
        IN  /\ ret.val <=> (/\ Len(a) = Len(b)
                            /\ \A i \in 1..Len(a) : a[i] = b[i])
            /\ (/\ ret.other.data_ = s.data_
                /\ ret.other.offset_ = s.offset_
                /\ ret.other.length_ = s.length_) => ret.val
            /\ (a = <<195, 169>> /\ b = <<101, 204, 129>>) => ~ret.val

\* A sub-view was found equal to a view over another buffer with the same
\* bytes, some of them malformed.
Wit_C14_OtherBuffer ==
    /\ ret.op = "equals" /\ ret.val
    /\ s.offset_ > 0
    /\ ret.other.data_ # s.data_
    /\ ViewBytes(heap, s) = <<65, 128>>

\* The order of two byte ranges as the specification states it: by the
\* first position where they differ, bytes as unsigned values, and a
\* proper prefix before the longer range.
LexOrder(a, b) ==
    LET common == IF Len(a) < Len(b) THEN Len(a) ELSE Len(b)
        diff   == {i \in 1..common : a[i] # b[i]}
    IN  IF diff # {}
        THEN LET k == CHOOSE i \in diff : \A j \in diff : i <= j
             IN  IF a[k] < b[k] THEN "LESS" ELSE "GREATER"
        ELSE IF Len(a) < Len(b) THEN "LESS"
        ELSE IF Len(a) > Len(b) THEN "GREATER"
        ELSE "EQUAL"

\* C15: a.compare_to(b) is the lexicographic order of the two byte ranges,
\* and views with the same buffer, offset and length compare EQUAL.
Thm_C15_CompareBytes ==
    ret.op = "compare_to" =>
        /\ ret.val = LexOrder(ViewBytes(heap, s), ret.bytes)
        /\ (/\ ret.other.data_ = s.data_
            /\ ret.other.offset_ = s.offset_
            /\ ret.other.length_ = s.length_) => ret.val = "EQUAL"

\* A sub-view of one byte 0x80 was found GREATER than the longer "AA".
Wit_C15_HighByte ==
    /\ ret.op = "compare_to" /\ ret.val = "GREATER"
    /\ s.offset_ > 0
    /\ ViewBytes(heap, s) = <<128>>
    /\ ret.bytes = <<65, 65>>

\* C16: each operation that takes an index throws exactly when its
\* argument is outside its domain, and then returns nothing: char_at,
\* char_value, operator[] and code_point_at iff i >= length();
\* code_point_before iff i = 0 or i > length(); code_point_count iff b > e
\* or e > length(); substring(b) iff b > length(); substring(b, e) iff
\* b > length() or e > length() or b > e.
Thm_C16_ThrowsIffOutside ==
    LET len == Len(Decoded(heap, s))
    IN  /\ ret.op \in {"char_at", "char_value", "operator[]", "code_point_at"}
            => (ret.thrown <=> ret.index >= len)
        /\ ret.op = "code_point_before"
            => (ret.thrown <=> (ret.index = 0 \/ ret.index > len))
        /\ ret.op = "code_point_count"
            => (ret.thrown <=> (ret.begin_index > ret.end_index \/ ret.end_index > len))
        /\ ret.op = "substring_from"
            => /\ ret.thrown <=> ret.beginIndex > len
               /\ ret.thrown <=> r = NoView
        /\ ret.op = "substring"
            => /\ ret.thrown <=> (\/ ret.beginIndex > len \/ ret.endIndex > len
                                  \/ ret.beginIndex > ret.endIndex)
               /\ ret.thrown <=> r = NoView

\* substring(b, e) has thrown for two indexes inside a view of malformed
\* bytes that are in the wrong order.
Wit_C16_BeginAfterEnd ==
    /\ ret.op = "substring" /\ ret.thrown
    /\ ret.endIndex < ret.beginIndex
    /\ ret.beginIndex <= Len(Decoded(heap, s))
    /\ ViewBytes(heap, s) = <<224, 128, 128>>
    /\ r = NoView

\* The units the bytes of a search argument decode to.
UnitsOf(bytes) == DecodeLoop(bytes, 0, Len(bytes))

\* The positions i (0-based) where the units [i, i + Len(n)) of u are n.
Occurrences(u, n) ==
    {i \in 0..(Len(u) - Len(n)) : SubSeq(u, i + 1, i + Len(n)) = n}

\* C17: h.indexOf(n, from) is from for an empty n when from <= h.length()
\* and invalid otherwise; for a non-empty n it is the smallest i >= from
\* where n's units occur in h, and invalid when there is none.
Thm_C17_IndexOfFirst ==
    ret.op = "indexOf" =>
        LET u == Decoded(heap, s)
            n == UnitsOf(ret.str)
            M == {i \in Occurrences(u, n) : i >= ret.fromIndex}
        IN  IF n = << >>
            THEN ret.val = (IF ret.fromIndex <= Len(u) THEN ret.fromIndex ELSE Invalid)
            ELSE IF M = {} THEN ret.val = Invalid
            ELSE ret.val \in M /\ \A i \in M : ret.val <= i

\* A two-unit text of ASCII and U+FFFD was found after the start position,
\* which was not 0.
Wit_C17_FoundLater ==
    /\ ret.op = "indexOf"
    /\ ret.str = <<65, 128>>
    /\ ret.fromIndex >= 1
    /\ ret.val # Invalid /\ ret.val > ret.fromIndex

\* C18: h.lastIndexOf(n, from) is min(from, h.length()) for an empty n; for
\* a non-empty n it is the largest i <= min(from, h.length() - n.length())
\* where n's units occur in h, and invalid when n is longer than h or there
\* is none.
Thm_C18_LastIndexOf ==
    ret.op = "lastIndexOf" =>
        LET u   == Decoded(heap, s)
            n   == UnitsOf(ret.str)
            top == IF ret.fromIndex < Len(u) - Len(n) THEN ret.fromIndex
                   ELSE Len(u) - Len(n)
            M   == {i \in Occurrences(u, n) : i <= top}
        IN  IF n = << >>
            THEN ret.val = (IF ret.fromIndex < Len(u) THEN ret.fromIndex ELSE Len(u))
            ELSE IF Len(n) > Len(u) \/ M = {} THEN ret.val = Invalid
            ELSE ret.val \in M /\ \A i \in M : ret.val >= i

\* The search began past the end of the view and found the text at the
\* very end.
Wit_C18_FromPastEnd ==
    /\ ret.op = "lastIndexOf"
    /\ ret.str = <<128>>
    /\ ret.fromIndex > Len(Decoded(heap, s))
    /\ Len(Decoded(heap, s)) >= 2
    /\ ret.val = Len(Decoded(heap, s)) - 1

\* C19 as stated: startsWith(empty, offset) returns true for every offset,
\* endsWith(empty) returns true, startsWith(p, offset) for a non-empty p is
\* true iff the units [offset, offset + p.length()) exist and are p's, and
\* endsWith(x) is true iff the last x.length() units are x's.
Cex_C19_EveryOffset ==
    LET u == Decoded(heap, s)
        n == UnitsOf(ret.str)
    IN  /\ ret.op = "startsWith" =>
            /\ ~ret.thrown
            /\ ret.val <=> (n = << >> \/ ret.offset \in Occurrences(u, n))
        /\ ret.op = "endsWith" =>
            (ret.val <=> (n = << >> \/ (Len(u) - Len(n)) \in Occurrences(u, n)))

\* C19: startsWith throws exactly when offset > length(), whatever the
\* prefix; for an offset up to length() it returns true for the empty
\* prefix and, for a non-empty p, exactly when the units
\* [offset, offset + p.length()) exist and are p's; endsWith(x) is true
\* exactly when x is empty or the last x.length() units are x's.
Thm_C19_AffixInRange ==
    LET u == Decoded(heap, s)
        n == UnitsOf(ret.str)
    IN  /\ ret.op = "startsWith" =>
            /\ ret.thrown <=> ret.offset > Len(u)
            /\ ~ret.thrown =>
                  (ret.val <=> (n = << >> \/ ret.offset \in Occurrences(u, n)))
        /\ ret.op = "endsWith" =>
            (ret.val <=> (n = << >> \/ (Len(u) - Len(n)) \in Occurrences(u, n)))

\* The empty prefix was tried at offset length() + 1 and startsWith threw.
Wit_C19_EmptyPastEnd ==
    /\ ret.op = "startsWith"
    /\ ret.str = << >>
    /\ ret.offset = Len(Decoded(heap, s)) + 1
    /\ ret.thrown

\* A step leaves the bytes of every buffer that stays alive as they are,
\* and a call of an operation on s (the step that sets ret) leaves s with
\* its buffer, byte offset and byte length.
FrameStep ==
    /\ \A id \in DOMAIN heap :
          (heap[id] # Free /\ heap'[id] # Free) => heap'[id] = heap[id]
    /\ (ret = NoRet /\ ret' # NoRet) =>
          /\ s'.data_ = s.data_
          /\ s'.offset_ = s.offset_
          /\ s'.length_ = s.length_
          /\ heap'[s.data_] = heap[s.data_]

\* C20: no public operation changes the buffer contents, the byte offset
\* or the byte length of a view, and substring never changes its receiver.
Thm_C20_ViewsUnchanged == [][FrameStep]_vars

\* substring has returned a narrower view of the buffer of its receiver,
\* itself a sub-view, which is as it was.
Wit_C20_SlicedSubView ==
    /\ ret.op = "substring" /\ ~ret.thrown
    /\ s.offset_ > 0
    /\ r.data_ = s.data_
    /\ r.length_ < s.length_
    /\ r.length_ > 0

\* The view v lies inside its buffer.
InBuffer(v) == v.offset_ + v.length_ <= Len(heap[v.data_])

\* C21: every view made from raw text and by substring calls has
\* byte_offset + byte_length <= buffer.length(), and the byte bounds
\* substring computes satisfy utf8_begin <= utf8_end <= length_ of the
\* receiver.
Thm_C21_RangeInBuffer ==
    /\ InBuffer(s)
    /\ r # NoView => InBuffer(r)
    /\ (ret.op = "substring" /\ ~ret.thrown) =>
          LET utf8_begin == Utf8Offset(heap, s, ret.beginIndex)
              utf8_end   == Utf8Offset(heap, s, ret.endIndex)
          IN  utf8_begin <= utf8_end /\ utf8_end <= s.length_

\* substring has returned a view that begins after the start of its
\* receiver, itself a sub-view of malformed bytes, and ends where the
\* buffer ends.
Wit_C21_SliceOfSlice ==
    /\ ret.op = "substring" /\ ~ret.thrown
    /\ s.offset_ > 0
    /\ r.data_ = s.data_
    /\ r.offset_ > s.offset_
    /\ r.length_ > 0
    /\ r.offset_ + r.length_ = Len(heap[r.data_])
    /\ \E i \in 1..Len(Decoded(heap, s)) : Decoded(heap, s)[i] = 65533

\* The view sub covers a byte range of v in v's buffer.
SharesNarrowed(sub, v) ==
    /\ sub.data_ = v.data_
    /\ v.offset_ <= sub.offset_
    /\ sub.offset_ + sub.length_ <= v.offset_ + v.length_

\* C22 as stated: every view substring returns shares the receiver's
\* buffer by reference with a narrowed byte range.
Cex_C22_AlwaysShares ==
    (ret.op = "substring" /\ ~ret.thrown) => SharesNarrowed(r, s)

\* C22, amended: a non-empty view substring returns, and the view of the
\* full range, shares the receiver's buffer with a narrowed byte range; an
\* empty view of any other range has an empty buffer of its own; and the
\* buffer of every surviving view is alive, whichever views were destroyed.
Thm_C22_SharedBuffer ==
    /\ heap[s.data_] # Free
    /\ r # NoView => heap[r.data_] # Free
    /\ (ret.op = "substring" /\ ~ret.thrown) =>
          IF \/ ret.beginIndex < ret.endIndex
             \/ ret.beginIndex = 0 /\ ret.endIndex = Len(get_utf16(heap, s))
          THEN SharesNarrowed(r, s)
          ELSE r.data_ # s.data_ /\ heap[r.data_] = << >> /\ r.length_ = 0

\* The view the text was made into, and a slice of it, are destroyed; a
\* slice of the slice still reads the buffer, and substring has returned
\* a strictly narrower view of it.
Wit_C22_SourceDestroyed ==
    /\ ret.op = "substring" /\ ~ret.thrown
    /\ s.offset_ > 0
    /\ s.offset_ + s.length_ < Len(heap[s.data_])
    /\ r.data_ = s.data_
    /\ r.length_ > 0
    /\ r.length_ < s.length_

\* What the reference a to_string call on s returned reads now.
ReadsNow(ref) == IF ref = "result" THEN to_string_result ELSE heap[s.data_]

\* C23: to_string() returns the bytes of the view's range, and what it
\* returned for one sub-view still holds that sub-view's bytes after
\* to_string() was called on a different sub-view on the same thread.
Cex_C23_ResultKept ==
    /\ ret.op = "to_string" => ret.val = ViewBytes(heap, s)
    /\ ret.op = "to_string_next" =>
          /\ ret.otherVal = ret.otherBytes
          /\ (ret.ref = "result" /\ ret.otherRef = "result") =>
                ReadsNow(ret.ref) = ViewBytes(heap, s)

\* The byte position at which the decoder, run from p with `count` units
\* behind it, first has t units or more.
RECURSIVE DecoderReaches(_, _, _, _, _)
DecoderReaches(buf, p, end, count, t) ==
    IF p < end /\ count < t
    THEN LET d == DecodeAt(buf, p, end)
         IN  DecoderReaches(buf, p + d.adv, end, count + Len(d.units), t)
    ELSE p

\* The positions of the view's range where the scan of substring begins
\* an iteration when it runs to the end.
RECURSIVE ScanStarts(_, _, _)
ScanStarts(buf, p, end) ==
    IF p < end THEN {p} \cup ScanStarts(buf, p + ScanAt(buf, p, end).adv, end)
    ELSE {}

\* C24: in a call of substring that runs the scans, for every sequence it
\* consumes the scan counts as many units as the decoder makes of it, and
\* the byte offset it returns for a unit index t is where the decoder's
\* count first reaches t.
Cex_C24_ScanAsDecoder ==
    (/\ ret.op = "substring" /\ ~ret.thrown
     /\ ret.beginIndex < ret.endIndex
     /\ ~FullRange(Len(get_utf16(heap, s)), ret.beginIndex, ret.endIndex)) =>
        LET buf == heap[s.data_]
            end == s.offset_ + s.length_
        IN  /\ \A p \in ScanStarts(buf, s.offset_, end) :
                  p < s.offset_ + Utf8Offset(heap, s, ret.endIndex) =>
                     ScanAt(buf, p, end).count = Len(DecodeAt(buf, p, end).units)
            /\ \A t \in {ret.beginIndex, ret.endIndex} :
                  Utf8Offset(heap, s, t)
                      = DecoderReaches(buf, s.offset_, end, 0, t) - s.offset_

\* The operations that fail for an index outside its bounds.
BoundedOps ==
    {"char_at", "char_value", "operator[]", "code_point_at", "code_point_before",
     "code_point_count", "substring", "substring_from", "startsWith"}

\* C25: a call of an operation with a bounds check that fails leaves the
\* receiver's cache as it was: the check comes before the cache is
\* populated.
Cex_C25_FailLeavesCache ==
    [][(ret'.op \in BoundedOps /\ ret # ret' /\ ret'.thrown)
          => s'.utf16_cache_ = s.utf16_cache_]_vars

\* C26: the only mutable state an operation touches is the receiving
\* view's own cache: no call, length() and to_string() included, reads or
\* writes an object shared with other views or other threads, such as one
\* of static storage duration.
Cex_C26_OnlyOwnCache ==
    [][initialized' = initialized /\ to_string_result' = to_string_result]_vars

\* C27: under any interleaving of first accesses of threads to the view,
\* the sequence whose reference get_utf16 returned to a thread is alive
\* and still the one the view's cache owns while the thread reads it.
Cex_C27_ReferenceAlive ==
    \A t \in Threads :
        (th[t].pc = "reading" /\ th[t].op = "get_utf16") =>
            /\ Alive(objs, th[t].ref)
            /\ member.ptr = th[t].ref

\* C28: the decoded sequence has no unpaired surrogate: a high surrogate
\* is followed by a low one and a low surrogate comes after a high one; so
\* code_point_at at the index of a high surrogate returns a value in
\* [0x10000, 0x10FFFF].
Thm_C28_NoLoneSurrogate ==
    LET utf16 == get_utf16(heap, s)
    IN  /\ \A i \in 1..Len(utf16) :
              /\ IsHigh(utf16[i]) => i < Len(utf16) /\ IsLow(utf16[i + 1])
              /\ IsLow(utf16[i]) => i > 1 /\ IsHigh(utf16[i - 1])
        /\ (/\ ret.op = "code_point_at" /\ ~ret.thrown
            /\ IsHigh(At(utf16, ret.index))) =>
                ret.val >= SUPPLEMENTARY /\ ret.val <= MAX_SCALAR

\* code_point_at was called at the high surrogate made of a 4-byte
\* sequence.
Wit_C28_AtHighSurrogate ==
    /\ ret.op = "code_point_at" /\ ~ret.thrown
    /\ IsHigh(At(get_utf16(heap, s), ret.index))
    /\ ViewBytes(heap, s) = <<244, 128, 128, 128>>

\* C29: an index that indexOf(ch, from), lastIndexOf(ch) or
\* lastIndexOf(ch, from) returns is below s.length() and is an index of
\* ch, at or after from for indexOf and at or before from for lastIndexOf
\* when from < s.length(); on a view of length 0 all of them return
\* invalid.
Cex_C29_CharIndexValid ==
    ret.op \in {"indexOf_char", "lastIndexOf_char", "lastIndexOf_char_all"} =>
        LET utf16 == get_utf16(heap, s)
        IN  /\ Len(utf16) = 0 => ret.val = Invalid
            /\ ret.val # Invalid =>
                  /\ ret.val < Len(utf16)
                  /\ char_at(utf16, ret.val) = [thrown |-> FALSE, val |-> ret.ch]
                  /\ ret.op = "indexOf_char" => ret.val >= ret.fromIndex
                  /\ (ret.op = "lastIndexOf_char" /\ ret.fromIndex < Len(utf16))
                        => ret.val <= ret.fromIndex

\* The heap with the buffer of the view the last comparison was made
\* with, which is gone once the call has returned.
HeapWithOther ==
    IF heap[ret.other.data_] = Free
    THEN [heap EXCEPT ![ret.other.data_] = ret.bytes]
    ELSE heap

\* C30: a.compare_to(b) is EQUAL exactly when a.equals(b), and LESS exactly
\* when b.compare_to(a) is GREATER; equals is reflexive, symmetric and
\* transitive; and the six operators return what equals and compare_to
\* imply.
Thm_C30_Consistent ==
    ret.op \in {"equals", "compare_to"} \cup Operators =>
        LET h == HeapWithOther
            a == s
            b == ret.other
        IN  /\ ret.op = "compare_to" =>
                  /\ ret.val = "EQUAL" <=> equals(h, a, b)
                  /\ ret.val = "LESS" <=> compare_to(h, b, a) = "GREATER"
                  /\ ret.val = "GREATER" <=> compare_to(h, b, a) = "LESS"
            /\ ret.op = "equals" =>
                  /\ equals(h, a, a) /\ equals(h, b, b)
                  /\ ret.val <=> equals(h, b, a)
                  /\ \A c \in OtherViews(h, a) :
                        (ret.val /\ equals(c.h, b, c.v)) => equals(c.h, a, c.v)
            /\ ret.op = "==" => (ret.val <=> equals(h, a, b))
            /\ ret.op = "!=" => (ret.val <=> ~equals(h, a, b))
            /\ ret.op = "<"  => (ret.val <=> compare_to(h, a, b) = "LESS")
            /\ ret.op = "<=" => (ret.val <=> compare_to(h, a, b) # "GREATER")
            /\ ret.op = ">"  => (ret.val <=> compare_to(h, a, b) = "GREATER")
            /\ ret.op = ">=" => (ret.val <=> compare_to(h, a, b) # "LESS")

\* operator<= was true for a sub-view and a view over another buffer with
\* the same bytes, some of them malformed.
Wit_C30_LessEqualOnEqual ==
    /\ ret.op = "<=" /\ ret.val
    /\ s.offset_ > 0
    /\ ret.other.data_ # s.data_
    /\ ret.bytes = <<65, 128>>
    /\ ViewBytes(heap, s) = <<65, 128>>

TypeOK == pc \in {"idle", "loop"}
=============================================================================
